---- MODULE Spec2Model ----
(***************************************************************************)
(* Hydrogen-like orbital densities (QSPS): a model of code/utils.py and of *)
(* code/3d_density.py.                                                     *)
(*                                                                         *)
(* Numbers.  The code works on floats; the model keeps every quantity in  *)
(* an exact form.  A rational is a reduced pair <<num, den>>, den > 0.     *)
(* The value returned by radial_wavefunction for an array argument r is    *)
(* kept as the expression the code builds with r as the indeterminate:     *)
(*     norm * exp(-expHalf * rho) * poly(rho),      rho = rate * r         *)
(* with norm > 0 stored by its square.  A value of the closed forms        *)
(* psi_1s / psi_2p0 at a point is   sgn * sqrt(q * pi^pi * r^rp) *         *)
(* exp(-ek * r / 2)   with r = sqrt(s) + eps * 1e-12 kept symbolic.        *)
(***************************************************************************)
EXTENDS Integers, Sequences, FiniteSets, TLC

\* ------------------------------------------------------------------ bounds
MaxN == 4      \* quantum numbers n, l tried: -1 .. MaxN
MaxZ == 2      \* nuclear charges tried: 1 .. MaxZ
MaxA0 == 2     \* Bohr-radius scales tried: 1 .. MaxA0

\* --------------------------------------------------------------- rationals
Abs(a) == IF a < 0 THEN -a ELSE a

RECURSIVE Gcd(_, _)
Gcd(a, b) == IF b = 0 THEN a ELSE Gcd(b, a % b)

RNorm(n, d) ==
  LET g == Gcd(Abs(n), Abs(d))
      s == IF d < 0 THEN -1 ELSE 1
  IN  IF n = 0 THEN <<0, 1>> ELSE <<(s * n) \div g, (s * d) \div g>>

RInt(k) == <<k, 1>>

RMul(a, b) ==
  LET g1 == Gcd(Abs(a[1]), b[2])
      g2 == Gcd(Abs(b[1]), a[2])
  IN  IF a[1] = 0 \/ b[1] = 0 THEN <<0, 1>>
      ELSE RNorm((a[1] \div g1) * (b[1] \div g2), (a[2] \div g2) * (b[2] \div g1))

RInv(a) == RNorm(a[2], a[1])

RDiv(a, b) == RMul(a, RInv(b))

RAdd(a, b) ==
  LET g == Gcd(a[2], b[2])
  IN  RNorm(a[1] * (b[2] \div g) + b[1] * (a[2] \div g), (a[2] \div g) * b[2])

RNeg(a) == <<-a[1], a[2]>>

RSub(a, b) == RAdd(a, RNeg(b))

RLe(a, b) == RSub(a, b)[1] <= 0

RLt(a, b) == RSub(a, b)[1] < 0

RECURSIVE RPow(_, _)
RPow(a, k) == IF k = 0 THEN <<1, 1>> ELSE RMul(a, RPow(a, k - 1))

RECURSIVE RSum(_)
RSum(seq) == IF seq = <<>> THEN <<0, 1>> ELSE RAdd(Head(seq), RSum(Tail(seq)))

\* ------------------------------------------------------------- polynomials
\* A polynomial is the sequence of its rational coefficients, p[i+1] of x^i.
PolyMul(p, q) ==
  [k \in 1..(Len(p) + Len(q) - 1) |->
     RSum([i \in 1..Len(p) |->
             IF k - i + 1 >= 1 /\ k - i + 1 <= Len(q)
             THEN RMul(p[i], q[k - i + 1]) ELSE <<0, 1>>])]

\* x^l * p(x)
PolyShift(p, l) == [i \in 1..(Len(p) + l) |-> IF i <= l THEN <<0, 1>> ELSE p[i - l]]

\* ------------------------------------------------------------ code/utils.py
A0 == 1

RECURSIVE factorial(_)
factorial(k) == IF k <= 1 THEN 1 ELSE k * factorial(k - 1)

Binom(n, k) == factorial(n) \div (factorial(k) * factorial(n - k))

\* scipy.special.genlaguerre(k, alpha): the generalized Laguerre polynomial
\*   L_k^alpha(x) = sum_{i=0..k} (-1)^i * C(k+alpha, k-i) * x^i / i!
genlaguerre(k, alpha) ==
  [j \in 1..(k + 1) |->
     RNorm((IF (j - 1) % 2 = 0 THEN 1 ELSE -1) * Binom(k + alpha, k - (j - 1)),
           factorial(j - 1))]

\* scaled_radius(r, n, Z, a0) = 2.0 * Z * r / (n * a0): the factor of r.
scaled_radius(n, Z, a0) == RNorm(2 * Z, n * a0)

\* The exponent of exp(-rho / 2.0), as a multiple of rho.
ExpHalfMut == <<1, 1>>

ExpHalf == <<1, 2>>

\* norm ** 2, norm = (2.0 * Z / (n * a0)) ** 1.5 * math.sqrt(num / den)
NormSqMut(n, l, Z, a0) ==
  RMul(RPow(RNorm(2 * Z, n * a0), 3),
       RNorm(factorial(n - l - 1), n * factorial(n + l)))

NormSq(n, l, Z, a0) ==
  RMul(RPow(RNorm(2 * Z, n * a0), 3),
       RNorm(factorial(n - l - 1), 2 * n * factorial(n + l)))

\* The checks of lines 76-79, in the order of the code: the line that raises,
\* 0 when none does.
ValidateMut(n, l) ==
  IF n <= 0 THEN 77
  ELSE IF l < 0 \/ l > n THEN 79
  ELSE 0

Validate(n, l) ==
  IF n <= 0 THEN 77
  ELSE IF l < 0 \/ l >= n THEN 79
  ELSE 0

Raise(kind, line) == [kind |-> kind, line |-> line]

\* radial_wavefunction(r, n, l, Z, a0), r the indeterminate.  After the
\* checks: scaled_radius divides numpy arrays (no exception on a zero
\* divisor), math.factorial raises ValueError on a negative argument and the
\* Python float division of line 86 raises ZeroDivisionError.
radial_wavefunction(n, l, Z, a0) ==
  IF Validate(n, l) # 0 THEN Raise("ValueError", Validate(n, l))
  ELSE IF n - l - 1 < 0 THEN Raise("ValueError", 84)
  ELSE IF n + l < 0 THEN Raise("ValueError", 85)
  ELSE IF n * a0 = 0 THEN Raise("ZeroDivisionError", 86)
  ELSE [kind    |-> "ok",
        normSq  |-> NormSq(n, l, Z, a0),
        rate    |-> scaled_radius(n, Z, a0),
        expHalf |-> ExpHalf,
        poly    |-> PolyShift(genlaguerre(n - l - 1, 2 * l + 1), l)]

\* A density expression: q * r^rp * exp(-ex * rho) * poly(rho), rho = rate * r
\* np.abs(R) ** 2
AbsSqRadial(R) ==
  [kind |-> "ok", q |-> R.normSq, rp |-> 0, rate |-> R.rate,
   ex |-> RMul(<<2, 1>>, R.expHalf), poly |-> PolyMul(R.poly, R.poly)]

radial_probability_density_mut(n, l, Z, a0) ==
  LET R == radial_wavefunction(n, l, Z, a0)
  IN  IF R.kind # "ok" THEN R
      ELSE [AbsSqRadial(R) EXCEPT !.rp = 1]

\* radial_probability_density: r_arr**2 * np.abs(R) ** 2
radial_probability_density(n, l, Z, a0) ==
  LET R == radial_wavefunction(n, l, Z, a0)
  IN  IF R.kind # "ok" THEN R
      ELSE [AbsSqRadial(R) EXCEPT !.rp = 2]

\* The integral over r from 0 to infinity of a density expression D, in closed
\* form: with rho = rate * r,
\*   int q r^rp exp(-ex rho) sum_m c_m rho^m dr
\*     = q / rate^(rp+1) * sum_m c_m (m+rp)! / ex^(m+rp+1)
Integral(D) ==
  RMul(RDiv(D.q, RPow(D.rate, D.rp + 1)),
       RSum([i \in 1..Len(D.poly) |->
               RMul(D.poly[i],
                    RDiv(RInt(factorial(i - 1 + D.rp)), RPow(D.ex, i + D.rp)))]))

\* ------------------------------------------------------- code/3d_density.py
\* A float value at a point: fin is "finite", "inf" or "nan"; a finite value
\* is sgn * sqrt(q * pi^pi * r^rp * exp(-ek * r)), r the radius record
\* [s, eps] standing for sqrt(s) + eps * 1e-12.  Zero is sgn = 0.
VZero(r) ==
  [fin |-> "finite", sgn |-> 0, q |-> <<0, 1>>, pi |-> 0, rp |-> 0,
   ek |-> <<0, 1>>, r |-> r]

VNonFinite(kind, r) == [VZero(r) EXCEPT !.fin = kind]

VNum(sgn, q, pi, rp, ek, r) ==
  IF sgn = 0 \/ q[1] = 0 THEN VZero(r)
  ELSE [fin |-> "finite", sgn |-> sgn, q |-> q, pi |-> pi, rp |-> rp,
        ek |-> ek, r |-> r]

Sign(a) == IF a[1] > 0 THEN 1 ELSE IF a[1] < 0 THEN -1 ELSE 0

\* a * b on floats (nan absorbs, inf * 0 = nan)
VMul(a, b) ==
  IF a.fin = "nan" \/ b.fin = "nan" THEN VNonFinite("nan", a.r)
  ELSE IF a.fin = "inf" \/ b.fin = "inf"
       THEN (IF (a.fin = "finite" /\ a.sgn = 0) \/ (b.fin = "finite" /\ b.sgn = 0)
             THEN VNonFinite("nan", a.r) ELSE VNonFinite("inf", a.r))
  ELSE VNum(a.sgn * b.sgn, RMul(a.q, b.q), a.pi + b.pi, a.rp + b.rp,
            RAdd(a.ek, b.ek), a.r)

\* a positive constant sqrt(q * pi^pi)
VConst(q, pi, r) == VNum(1, q, pi, 0, <<0, 1>>, r)

RadiusIsZero(r) == r.s[1] = 0 /\ r.eps = 0

\* r / a0
VRadius(r, a0) ==
  IF RadiusIsZero(r) THEN VZero(r)
  ELSE VNum(1, RDiv(<<1, 1>>, RMul(a0, a0)), 0, 2, <<0, 1>>, r)

\* z / r
VOverRadius(z, r) ==
  IF RadiusIsZero(r)
  THEN (IF z[1] = 0 THEN VNonFinite("nan", r) ELSE VNonFinite("inf", r))
  ELSE VNum(Sign(z), RMul(z, z), 0, -2, <<0, 1>>, r)

\* np.exp(-t) is 0.0 for t > 1075 ln 2 = 745.13..., that is for
\* t^2 >= 555224 (t^2 < 555223 does not underflow).
ExpUnderflowSq == 555224

\* np.exp(-k * r): zero once k * r passes the underflow threshold
VExpNeg(k, r) ==
  LET t2 == RMul(RMul(k, k), r.s)
  IN  IF t2[1] \div t2[2] >= ExpUnderflowSq THEN VZero(r)
      ELSE VNum(1, <<1, 1>>, 0, 0, RMul(<<2, 1>>, k), r)

\* np.abs(v) ** 2: the density q * pi^pi * r^rp * exp(-ek * r) itself
AbsSq(v) ==
  [fin |-> v.fin, pos |-> v.fin = "finite" /\ v.sgn # 0, q |-> v.q, pi |-> v.pi,
   rp |-> v.rp, ek |-> v.ek, r |-> v.r]

RSq(a) == RMul(a, a)

\* r = np.sqrt(x**2 + y**2 + z**2) + 1e-12
radius_mut(x, y, z) ==
  [s |-> RAdd(RSq(x), RAdd(RSq(y), RSq(z))), eps |-> 0]

radius(x, y, z) ==
  [s |-> RAdd(RSq(x), RAdd(RSq(y), RSq(z))), eps |-> 1]

psi_1s_mut(x, y, z, Z) ==
  LET r == radius(x, y, z)
      a0 == <<1, 1>>
  IN  VMul(VConst(RPow(Z, 3), -1, r), VExpNeg(RDiv(Z, RMul(<<2, 1>>, a0)), r))

\* psi_1s: (Z**3 / np.pi)**0.5 * np.exp(-Z * r / a0)
psi_1s(x, y, z, Z) ==
  LET r == radius(x, y, z)
      a0 == <<1, 1>>
  IN  VMul(VConst(RPow(Z, 3), -1, r), VExpNeg(RDiv(Z, a0), r))

\* psi_2p0: R_21 * Y_10
psi_2p0(x, y, z, Z) ==
  LET r == radius(x, y, z)
      a0 == <<1, 1>>
      cos_theta == VOverRadius(z, r)
      Y_10 == VMul(VConst(<<3, 4>>, -1, r), cos_theta)
      R_21 == VMul(VMul(VConst(<<1, 24>>, 0, r),
                        VConst(RPow(RDiv(Z, a0), 3), 0, r)),
                   VMul(VRadius(r, a0), VExpNeg(RDiv(Z, RMul(<<2, 1>>, a0)), r)))
  IN  VMul(R_21, Y_10)

\* |radial_wavefunction(r, ...)|^2 at the radius record r as a density value,
\* for an expression whose polynomial is a constant (n = l + 1 = 1).
RadialDensityAt(R, r) ==
  LET D == AbsSqRadial(R)
  IN  [fin |-> "finite", pos |-> TRUE, q |-> RMul(D.q, D.poly[1]), pi |-> 0,
       rp |-> 0, ek |-> RMul(D.ex, D.rate), r |-> r]

\* ------------------------------------------------- float values, numerically
\* Where the script orders values (max) and divides them, a density is taken
\* numerically in fixed point: an integer v stands for v / 10^Digits.
Digits == 6     \* decimal digits kept by the fixed-point evaluation

RECURSIVE Pow10(_)
Pow10(k) == IF k = 0 THEN 1 ELSE 10 * Pow10(k - 1)

SCALE == Pow10(Digits)

\* floor(rem / den * 10^d), 0 <= rem < den, by long division
RECURSIVE LongDiv(_, _, _)
LongDiv(rem, den, d) ==
  IF d = 0 THEN 0
  ELSE ((rem * 10) \div den) * Pow10(d - 1) + LongDiv((rem * 10) % den, den, d - 1)

\* floor(a * 10^d) of a rational a >= 0
RatToFx(a, d) == (a[1] \div a[2]) * Pow10(d) + LongDiv(a[1] % a[2], a[2], d)

\* a * digit * 10^i / 10^Digits
MulTerm(a, digit, i) ==
  IF i <= Digits THEN (a * digit) \div Pow10(Digits - i)
  ELSE a * digit * Pow10(i - Digits)

\* a * b of two fixed-point values, digit by digit of b
RECURSIVE MulFxFrom(_, _, _)
MulFxFrom(a, b, i) ==
  IF b = 0 THEN 0 ELSE MulTerm(a, b % 10, i) + MulFxFrom(a, b \div 10, i + 1)

MulFx(a, b) == MulFxFrom(a, b, 0)

\* a / b of two fixed-point values, b > 0
DivFx(a, b) == (a \div b) * SCALE + LongDiv(a % b, b, Digits)

RECURSIVE PowFx(_, _)
PowFx(a, k) ==
  IF k = 0 THEN SCALE
  ELSE IF k > 0 THEN MulFx(a, PowFx(a, k - 1))
  ELSE DivFx(PowFx(a, k + 1), a)

\* the largest k in lo..hi with k * k <= n
RECURSIVE Bisect(_, _, _)
Bisect(n, lo, hi) ==
  IF lo = hi THEN lo
  ELSE LET m == (lo + hi + 1) \div 2
       IN  IF m * m <= n THEN Bisect(n, m, hi) ELSE Bisect(n, lo, m - 1)

Isqrt(n) == Bisect(n, 0, 46340)

\* np.sqrt(s) + 1e-12 to three decimals (the offset is below the resolution)
RadiusFx(r) == Isqrt(RatToFx(r.s, 6)) * Pow10(Digits - 3)

\* exp(-f) for 0 <= f <= 1 by its Taylor series
RECURSIVE Taylor(_, _, _, _)
Taylor(f, term, k, sign) ==
  IF k > 14 \/ term = 0 THEN 0
  ELSE sign * term + Taylor(f, MulFx(term, f) \div (k + 1), k + 1, -sign)

ExpFrac(f) == Taylor(f, SCALE, 0, 1)

\* np.exp(-t), t >= 0 in fixed point
ExpNegFx(t) == MulFx(PowFx(ExpFrac(SCALE), t \div SCALE), ExpFrac(t % SCALE))

\* pi is taken as 355/113
PiFx == RatToFx(<<355, 113>>, Digits)

\* The number a density value q * pi^pi * r^rp * exp(-ek * r) stands for
EvalFx(D) ==
  IF ~D.pos THEN 0
  ELSE LET rfx == RadiusFx(D.r)
       IN  MulFx(MulFx(MulFx(RatToFx(D.q, Digits), PowFx(PiFx, D.pi)),
                       PowFx(rfx, D.rp)),
                 ExpNegFx((D.ek[1] * rfx) \div D.ek[2]))

\* ------------------------------------------- code/3d_density.py, the script
N_1s == 200

L_1s == 6

N_2p == 300

L_2p == 12

\* np.linspace(-L, L, N)[i], i = 0 .. N-1
linspace(L, N, i) == RNorm(2 * L * i - L * (N - 1), N - 1)

\* The fields are evaluated at the grid indices of a sample: every Stride-th
\* index, the two indices around the middle and the last one.
Stride == 100

Sample(N) ==
  {i \in 0..(N - 1) : i % Stride = 0} \cup {N \div 2 - 1, N \div 2, N - 1}

RECURSIVE SortedSeq(_)
SortedSeq(S) ==
  IF S = {} THEN <<>>
  ELSE LET m == CHOOSE a \in S : \A b \in S : a <= b
       IN  <<m>> \o SortedSeq(S \ {m})

\* The c-th index triple of the sample, in C order
PointAt(N, c) ==
  LET S == SortedSeq(Sample(N))
      n == Len(S)
  IN  <<S[(c \div (n * n)) + 1], S[((c \div n) % n) + 1], S[(c % n) + 1]>>

Points(N) == Sample(N) \X Sample(N) \X Sample(N)

\* X, Y, Z = np.meshgrid(g, g, g) with the default indexing 'xy':
\* X[i,j,k] = g[j], Y[i,j,k] = g[i], Z[i,j,k] = g[k]
meshgrid(L, N, p) ==
  [x |-> linspace(L, N, p[2]), y |-> linspace(L, N, p[1]), z |-> linspace(L, N, p[3])]

\* np.abs(psi_1s(X1, Y1, Z1))**2 at one index triple
Density1s(p) ==
  LET c == meshgrid(L_1s, N_1s, p)
  IN  EvalFx(AbsSq(psi_1s(c.x, c.y, c.z, <<1, 1>>)))

\* np.abs(psi_2p0(X2, Y2, Z2))**2 at one index triple
Density2p(p) ==
  LET c == meshgrid(L_2p, N_2p, p)
  IN  EvalFx(AbsSq(psi_2p0(c.x, c.y, c.z, <<1, 1>>)))

RECURSIVE SetMax(_)
SetMax(S) ==
  LET a == CHOOSE b \in S : TRUE
  IN  IF S = {a} THEN a
      ELSE LET m == SetMax(S \ {a}) IN IF a > m THEN a ELSE m

\* rho.max() over one slice only
FieldMaxSlice(rho) ==
  LET k == CHOOSE k \in {p[3] : p \in DOMAIN rho} :
             \A q \in DOMAIN rho : q[3] >= k
  IN  SetMax({rho[p] : p \in {q \in DOMAIN rho : q[3] = k}})

\* rho.max(), np.abs(rho).max(): over the whole field
FieldMax(rho) == SetMax({Abs(rho[p]) : p \in DOMAIN rho})

\* rho /= rho.max()
Normalized(rho) ==
  LET m == FieldMax(rho)
  IN  [p \in DOMAIN rho |-> RNorm(rho[p], m)]

\* The six imshow calls: the field, the axis the slice fixes (1, 2, 3 for
\* rho[mid,:,:], rho[:,mid,:], rho[:,:,mid]), the coordinate the title gives
\* as zero, the axis labels and the colour-scale bounds.
Plots ==
  <<[field |-> "1s", axis |-> 3, title |-> "z", xlabel |-> "x", ylabel |-> "y",
     vmin |-> <<0, 1>>, vmax |-> <<1, 1>>],
    [field |-> "1s", axis |-> 2, title |-> "y", xlabel |-> "x", ylabel |-> "z",
     vmin |-> <<0, 1>>, vmax |-> <<1, 1>>],
    [field |-> "1s", axis |-> 1, title |-> "x", xlabel |-> "y", ylabel |-> "z",
     vmin |-> <<0, 1>>, vmax |-> <<1, 1>>],
    [field |-> "2p", axis |-> 3, title |-> "z", xlabel |-> "x", ylabel |-> "y",
     vmin |-> <<-3, 10>>, vmax |-> <<3, 10>>],
    [field |-> "2p", axis |-> 2, title |-> "y", xlabel |-> "x", ylabel |-> "z",
     vmin |-> <<-3, 10>>, vmax |-> <<3, 10>>],
    [field |-> "2p", axis |-> 1, title |-> "x", xlabel |-> "y", ylabel |-> "z",
     vmin |-> <<-3, 10>>, vmax |-> <<3, 10>>]>>

\* The index triple of element [a, b] of the slice that fixes `axis` at mid
SliceIndex(axis, mid, a, b) ==
  IF axis = 3 THEN <<a, b, mid>>
  ELSE IF axis = 2 THEN <<a, mid, b>>
  ELSE <<mid, a, b>>

\* imshow(slice.T, origin='lower'): pixel [row, col] of the transposed slice is
\* element [col, row] of the slice; col runs along the horizontal axis.
Image(plot, rho, mid, N) ==
  [plot |-> plot,
   pix  |-> [rc \in Sample(N) \X Sample(N) |->
               LET p == SliceIndex(plot.axis, mid, rc[2], rc[1])
               IN  [v |-> rho[p], at |-> p]]]

\* ------------------------------------------------------------------- state
VARIABLES op, args, ret,                      \* one call of a function
          pc, cur, rho_1s, rho_2p, mid_1s, mid_2p, images, contour   \* the script

cvars == <<op, args, ret>>

svars == <<pc, cur, rho_1s, rho_2p, mid_1s, mid_2p, images, contour>>

vars == <<op, args, ret, pc, cur, rho_1s, rho_2p, mid_1s, mid_2p, images, contour>>

MaxC == 2       \* point coordinates tried: -MaxC .. MaxC
Far == 1500     \* and -Far, Far: a point far outside the plotted domain

Near == (-MaxC)..MaxC

Coords == Near \cup {-Far, Far}

\* Init: no function called yet, the script at its first field.  The
\* functions are pure, so a behaviour of Spec is one call from the idle state;
\* a behaviour of SpecScript is one run of the script.
Init ==
  /\ op = "none"
  /\ args = [n |-> 0, l |-> 0, Z |-> 0, a0 |-> 0]
  /\ ret = [kind |-> "none"]
  /\ pc = "rho_1s"
  /\ cur = 0
  /\ rho_1s = <<>>
  /\ rho_2p = <<>>
  /\ mid_1s = -1
  /\ mid_2p = -1
  /\ images = <<>>
  /\ contour = <<>>

CallRadialWavefunction ==
  \E n \in -1..MaxN, l \in -1..MaxN, Z \in 1..MaxZ, a0 \in 1..MaxA0 :
    /\ op = "none"
    /\ op' = "radial_wavefunction"
    /\ args' = [n |-> n, l |-> l, Z |-> Z, a0 |-> a0]
    /\ ret' = radial_wavefunction(n, l, Z, a0)
    /\ UNCHANGED svars

CallRadialProbabilityDensity ==
  \E n \in -1..MaxN, l \in -1..MaxN, Z \in 1..MaxZ, a0 \in 1..MaxA0 :
    /\ op = "none"
    /\ op' = "radial_probability_density"
    /\ args' = [n |-> n, l |-> l, Z |-> Z, a0 |-> a0]
    /\ ret' = radial_probability_density(n, l, Z, a0)
    /\ UNCHANGED svars

CallPsi1s ==
  \E x \in Near, y \in Near, z \in Near, Z \in 1..MaxZ :
    /\ op = "none"
    /\ op' = "psi_1s"
    /\ args' = [x |-> x, y |-> y, z |-> z, Z |-> Z]
    /\ ret' = psi_1s(RInt(x), RInt(y), RInt(z), RInt(Z))
    /\ UNCHANGED svars

CallPsi2p0 ==
  \E x \in Coords, y \in Coords, z \in Coords, Z \in 1..MaxZ :
    /\ op = "none"
    /\ op' = "psi_2p0"
    /\ args' = [x |-> x, y |-> y, z |-> z, Z |-> Z]
    /\ ret' = psi_2p0(RInt(x), RInt(y), RInt(z), RInt(Z))
    /\ UNCHANGED svars

Next ==
  \/ CallRadialWavefunction
  \/ CallRadialProbabilityDensity
  \/ CallPsi1s
  \/ CallPsi2p0

Spec == Init /\ [][Next]_vars

\* --- the script of 3d_density.py, statement by statement; a vectorized
\* expression fills its array element by element, in C order.
\* line 52: rho_1s = np.abs(psi_1s(X1, Y1, Z1))**2
Eval1s ==
  /\ pc = "rho_1s"
  /\ cur < Cardinality(Points(N_1s))
  /\ LET p == PointAt(N_1s, cur)
     IN  rho_1s' = [q \in DOMAIN rho_1s \cup {p} |->
                      IF q = p THEN Density1s(p) ELSE rho_1s[q]]
  /\ cur' = cur + 1
  /\ UNCHANGED <<pc, rho_2p, mid_1s, mid_2p, images, contour, cvars>>

\* lines 53-55: rho_1s /= rho_1s.max(); mid_1s = len(grid_1s) // 2
Normalize1s ==
  /\ pc = "rho_1s"
  /\ cur = Cardinality(Points(N_1s))
  /\ rho_1s' = Normalized(rho_1s)
  /\ mid_1s' = N_1s \div 2
  /\ pc' = "imshow"
  /\ UNCHANGED <<cur, rho_2p, mid_2p, images, contour, cvars>>

\* lines 58-89 and 102-138: the next imshow call
Imshow ==
  /\ pc = "imshow"
  /\ Len(images) < Len(Plots)
  /\ LET plot == Plots[Len(images) + 1]
     IN  /\ images' = Append(images,
                        IF plot.field = "1s"
                        THEN Image(plot, rho_1s, mid_1s, N_1s)
                        ELSE Image(plot, rho_2p, mid_2p, N_2p))
         /\ pc' = IF Len(images) + 1 = 3 THEN "rho_2p"
                  ELSE IF Len(images) + 1 = 5 THEN "contour"
                  ELSE IF Len(images) + 1 = Len(Plots) THEN "done"
                  ELSE "imshow"
  /\ cur' = 0
  /\ UNCHANGED <<rho_1s, rho_2p, mid_1s, mid_2p, contour, cvars>>

\* line 96: rho_2p = np.abs(psi_2p0(X2, Y2, Z2))**2
Eval2p ==
  /\ pc = "rho_2p"
  /\ cur < Cardinality(Points(N_2p))
  /\ LET p == PointAt(N_2p, cur)
     IN  rho_2p' = [q \in DOMAIN rho_2p \cup {p} |->
                      IF q = p THEN Density2p(p) ELSE rho_2p[q]]
  /\ cur' = cur + 1
  /\ UNCHANGED <<pc, rho_1s, mid_1s, mid_2p, images, contour, cvars>>

\* lines 97-99: rho_2p /= np.abs(rho_2p).max(); mid_2p = len(grid_2p) // 2
Normalize2p ==
  /\ pc = "rho_2p"
  /\ cur = Cardinality(Points(N_2p))
  /\ rho_2p' = Normalized(rho_2p)
  /\ mid_2p' = N_2p \div 2
  /\ pc' = "imshow"
  /\ UNCHANGED <<cur, rho_1s, mid_1s, images, contour, cvars>>

\* lines 124-127: contour of rho_2p[:, mid_2p, :].T at
\* contour_levels = np.linspace(-0.25, 0.25, 11)
Contour ==
  /\ pc = "contour"
  /\ contour' = [levels |-> [m \in 1..11 |-> RNorm(m - 6, 20)],
                 pix    |-> Image(Plots[5], rho_2p, mid_2p, N_2p).pix]
  /\ pc' = "imshow"
  /\ UNCHANGED <<cur, rho_1s, rho_2p, mid_1s, mid_2p, images, cvars>>

NextScript ==
  \/ Eval1s
  \/ Normalize1s
  \/ Imshow
  \/ Eval2p
  \/ Normalize2p
  \/ Contour

SpecScript == Init /\ [][NextScript]_vars

\* ------------------------------------------------------------------ claims
ValidQuantumNumbers(n, l) == n >= 1 /\ 0 <= l /\ l <= n - 1

\* C1: radial_wavefunction raises the validation ValueError (line 77 or 79)
\* for every (n, l) with n <= 0, l < 0 or l >= n, returns a value for every
\* valid pair, and for n = 0 never reaches the division by n * a0.
C1_Validation ==
  op = "radial_wavefunction" =>
    /\ ~ValidQuantumNumbers(args.n, args.l) =>
         (ret.kind = "ValueError" /\ ret.line \in {77, 79})
    /\ ValidQuantumNumbers(args.n, args.l) => ret.kind = "ok"
    /\ args.n = 0 => ret.kind # "ZeroDivisionError"

C1_Witness ==
  /\ op = "radial_wavefunction"
  /\ args.n = 0
  /\ args.l = 0
  /\ ret.kind = "ValueError"

\* The square of the prefactor norm * L of an expression whose Laguerre
\* polynomial has degree 0, as q * pi^pi, and the decay rate k of exp(-k r).
PrefactorSq(R) == [q |-> RMul(R.normSq, RSq(R.poly[1])), pi |-> 0]

Decay(R) == RMul(R.expHalf, R.rate)

Is1sCall ==
  /\ op = "radial_wavefunction"
  /\ args = [n |-> 1, l |-> 0, Z |-> 1, a0 |-> 1]

\* C2 as stated: for n=1, l=0, Z=1, a0=1 the result is (1/sqrt(pi)) e^(-r):
\* the squared prefactor is 1/pi and the decay rate is 1.
C2_Original ==
  Is1sCall =>
    /\ ret.kind = "ok"
    /\ Len(ret.poly) = 1
    /\ PrefactorSq(ret) = [q |-> <<1, 1>>, pi |-> -1]
    /\ Decay(ret) = <<1, 1>>

\* C2 amended: for n=1, l=0, Z=1, a0=1 the result is 2 e^(-r): the squared
\* prefactor norm * L is 4 (no factor of pi) and the decay rate is 1.
C2_Amended ==
  Is1sCall =>
    /\ ret.kind = "ok"
    /\ Len(ret.poly) = 1
    /\ PrefactorSq(ret) = [q |-> <<4, 1>>, pi |-> 0]
    /\ Decay(ret) = <<1, 1>>

C2_Witness == Is1sCall /\ ret.kind = "ok" /\ ret.normSq = <<4, 1>>

Is1sPoint ==
  /\ op = "psi_1s"
  /\ args.Z = 1
  /\ args.x * args.x + args.y * args.y + args.z * args.z > 0

\* C3 as stated: for Z = 1 and r > 0 the density |psi_1s|^2 equals
\* |radial_wavefunction(r, 1, 0)|^2 taken at the same (offset) radius.
C3_Original ==
  Is1sPoint =>
    AbsSq(ret) = RadialDensityAt(radial_wavefunction(1, 0, 1, A0), ret.r)

\* C3 amended: for Z = 1 and r > 0 the two densities have the same exponential
\* decay and differ by the constant factor 4 pi:
\*   |psi_1s|^2 = |radial_wavefunction(r, 1, 0)|^2 / (4 pi).
C3_Amended ==
  Is1sPoint =>
    LET d == AbsSq(ret)
        g == RadialDensityAt(radial_wavefunction(1, 0, 1, A0), ret.r)
    IN  /\ d.fin = "finite" /\ d.pos
        /\ d.ek = g.ek
        /\ d.rp = g.rp
        /\ RMul(<<4, 1>>, d.q) = g.q
        /\ d.pi + 1 = g.pi

C3_Witness ==
  /\ Is1sPoint
  /\ args.x = 1 /\ args.y = 2 /\ args.z = 2
  /\ AbsSq(ret).q = <<1, 1>>
  /\ AbsSq(ret).pi = -1

\* C4: for every valid (n, l) the returned wavefunction is normalized: the
\* integral over r from 0 to infinity of |R(r)|^2 r^2 is within 1e-3 of 1.
C4_Normalized ==
  (op = "radial_wavefunction" /\ ret.kind = "ok") =>
    LET I == Integral([AbsSqRadial(ret) EXCEPT !.rp = 2])
    IN  /\ RLe(RSub(I, <<1, 1>>), <<1, 1000>>)
        /\ RLe(RSub(<<1, 1>>, I), <<1, 1000>>)

C4_Witness ==
  /\ op = "radial_wavefunction"
  /\ args.n = 3 /\ args.l = 1 /\ args.Z = 2
  /\ ret.kind = "ok"
  /\ Len(ret.poly) = 3
  /\ Integral([AbsSqRadial(ret) EXCEPT !.rp = 2]) = <<1, 1>>

C6_Density ==
  op = "radial_probability_density" =>
    LET R == radial_wavefunction(args.n, args.l, args.Z, args.a0)
    IN  /\ ValidQuantumNumbers(args.n, args.l) <=> ret.kind = "ok"
        /\ R.kind # "ok" => ret = R
        /\ R.kind = "ok" =>
             /\ ret.rp = 2
             /\ ret.q = R.normSq
             /\ ret.rate = R.rate
             /\ ret.ex = RMul(<<2, 1>>, R.expHalf)
             /\ ret.poly = PolyMul(R.poly, R.poly)

C6_Witness ==
  /\ op = "radial_probability_density"
  /\ args.n = 2 /\ args.l = 0
  /\ ret.kind = "ok"
  /\ ret.rp = 2
  /\ Len(ret.poly) = 3

\* The raw (unnormalized) density the script computed at an index triple
Raw(field, p) == IF field = "1s" THEN Density1s(p) ELSE Density2p(p)

\* The divisor the whole field must have been divided by: its maximum
WholeFieldMax(field, rho) == SetMax({Raw(field, p) : p \in DOMAIN rho})

FieldNormalized(field, rho) ==
  LET M == WholeFieldMax(field, rho)
  IN  /\ M > 0
      /\ \A p \in DOMAIN rho :
           /\ rho[p] = RNorm(Raw(field, p), M)
           /\ RLe(<<0, 1>>, rho[p])
           /\ RLe(rho[p], <<1, 1>>)
      /\ \E p \in DOMAIN rho : rho[p] = <<1, 1>>

\* C7: each density field is divided once by the maximum over its whole
\* grid: afterwards every value is raw / max for that one divisor (so ratios
\* are kept), lies in [0, 1], the maximum is exactly 1, and every pixel of
\* the three slices shown carries the value so scaled.
C7_WholeFieldNormalization ==
  /\ (pc \in {"imshow", "contour", "done"} /\ mid_1s >= 0) =>
       FieldNormalized("1s", rho_1s)
  /\ (pc \in {"imshow", "contour", "done"} /\ mid_2p >= 0) =>
       FieldNormalized("2p", rho_2p)
  /\ pc = "done" =>
       \A k \in 1..Len(images) :
         LET im == images[k]
             rho == IF im.plot.field = "1s" THEN rho_1s ELSE rho_2p
             M == WholeFieldMax(im.plot.field, rho)
         IN  \A rc \in DOMAIN im.pix :
               im.pix[rc].v = RNorm(Raw(im.plot.field, im.pix[rc].at), M)

C7_Witness ==
  /\ pc = "done"
  /\ Len(images) = 6
  /\ \E p \in DOMAIN rho_1s : rho_1s[p] = <<1, 1>>
  /\ \E p \in DOMAIN rho_2p : rho_2p[p] = <<1, 1>>
  /\ \E p \in DOMAIN rho_2p : RLt(<<0, 1>>, rho_2p[p]) /\ RLt(rho_2p[p], <<1, 1>>)

\* C8 as stated: the slice index mid = len(grid) // 2 lies on the
\* coordinate-zero plane for both grids: grid[mid] = 0.
C8_Original ==
  /\ mid_1s >= 0 => linspace(L_1s, N_1s, mid_1s) = <<0, 1>>
  /\ mid_2p >= 0 => linspace(L_2p, N_2p, mid_2p) = <<0, 1>>

Coordinate(c, name) == IF name = "x" THEN c.x ELSE IF name = "y" THEN c.y ELSE c.z

GridOf(field) ==
  IF field = "1s" THEN [L |-> L_1s, N |-> N_1s, mid |-> mid_1s]
  ELSE [L |-> L_2p, N |-> N_2p, mid |-> mid_2p]

\* C9 as stated: every pixel of a slice has the coordinate its title names
\* fixed at grid[mid], and along the horizontal image axis (the column) runs
\* the coordinate the x-axis label names.
C9_Original ==
  \A k \in 1..Len(images) :
    LET im == images[k]
        g == GridOf(im.plot.field)
    IN  \A rc \in DOMAIN im.pix :
          LET c == meshgrid(g.L, g.N, im.pix[rc].at)
          IN  /\ Coordinate(c, im.plot.title) = linspace(g.L, g.N, g.mid)
              /\ Coordinate(c, im.plot.xlabel) = linspace(g.L, g.N, rc[2])

\* C10 as stated: the normalized 2p0 field takes positive and negative
\* values, and every value plotted lies within the colour scale [-0.3, 0.3].
C10_Original ==
  pc = "done" =>
    /\ \E p \in DOMAIN rho_2p : rho_2p[p][1] > 0
    /\ \E p \in DOMAIN rho_2p : rho_2p[p][1] < 0
    /\ \A k \in 4..6 :
         \A rc \in DOMAIN images[k].pix :
           /\ RLe(images[k].plot.vmin, images[k].pix[rc].v)
           /\ RLe(images[k].pix[rc].v, images[k].plot.vmax)

====
